---------------------------- MODULE Spec2Model ----------------------------
(***************************************************************************)
(* Model of the elysia-local import pipeline.                              *)
(*                                                                         *)
(*   src/importdata.py            the importer: value coercion, the index  *)
(*                                classifier, the item builder, send_row   *)
(*                                and the run loop of main                 *)
(*   src/elysia/api/routes/db.py  the import endpoint import_collection_   *)
(*                                data, run against a document store       *)
(*                                                                         *)
(* Three specifications share the variables:                               *)
(*   Spec            one run of main against the endpoint (one request in  *)
(*                   flight at a time, as main is sequential)              *)
(*   ServerSpec      the endpoint serving requests of several clients      *)
(*                   whose handling interleaves at the handler's awaits    *)
(*   ClassifierSpec  map_indexes_from_row applied to one row               *)
(*                                                                         *)
(* Strings.  A cell's text is a TLA+ string taken from a small universe;   *)
(* str.strip and str.lower are the tables Strip and Lower over it.  A cell *)
(* that is split on commas is the sequence of its comma-free parts (every  *)
(* string is exactly one non-empty such sequence), so <<>> is free to      *)
(* stand for a missing cell (None / NaN) of such a column.  A missing cell *)
(* of a plain text column is the value None.                               *)
(*                                                                         *)
(* The network.  A delivery of main fails before the request reaches the   *)
(* endpoint, or after the endpoint has answered (the response is lost, is  *)
(* late or is no JSON); a request the endpoint got is served to its        *)
(* response before main goes on.  The user lookup of the handler           *)
(* (get_user_local) is taken to return the user.                           *)
(***************************************************************************)
EXTENDS Integers, Sequences, FiniteSets, TLC

VARIABLES
    \* ---- the importer (main) ----
    pc,               \* main at: discover, rows, send, wait, done (off: no run)
    total,            \* total = len(df)
    idx,              \* rows consumed so far by the for loop
    existing,         \* the discovered set
    force_collection, \* args.collection stripped, or None
    item,             \* the current row's item
    targets,          \* the current row's destination list
    tpos,             \* index in targets of the delivery being made
    row_ok,           \* row_ok
    success,          \* success
    failed,           \* failed
    report,           \* the summary line printed at the end
    exit_code,        \* main's return value
    \* ---- what the run did, recorded for the properties ----
    attempts,         \* the current row's deliveries: <<[coll, ok]>>
    skipped,          \* rows that took one of the two `continue`s
    last,             \* how the last finished row ended
    discovery_failed, \* the discovery's except branch ran
    \* ---- the endpoint and the store ----
    req,              \* per request slot: the handler's position and locals
    collections,      \* the store's collections (client.collections.exists)
    objects,          \* per collection, the objects inserted
    createCalls,      \* per collection, calls of client.collections.create
    storeCalls,       \* per slot, store calls made by the current request
    stored,           \* per slot, objects the current request inserted
    posted,           \* requests posted by the clients of ServerSpec
    \* ---- the classifier on its own ----
    crow,             \* the row given to map_indexes_from_row
    cresult,          \* what it returned
    cpc               \* "ready" before the call, "returned" after

importerVars == <<pc, total, idx, existing, force_collection, item, targets,
                  tpos, row_ok, success, failed, report, exit_code,
                  attempts, skipped, last, discovery_failed>>
serverVars == <<req, collections, objects, createCalls, storeCalls, stored,
               posted>>
classifierVars == <<crow, cresult, cpc>>
vars == <<importerVars, serverVars, classifierVars>>

---------------------------------------------------------------------------
(* Bounds *)

MaxParts == 2      \* comma-separated parts in an explicit indexes cell
MaxRows == 2       \* rows of the sheet
MaxListing == 2    \* entries of the collection listing
MaxBatch == 2      \* items of one import request
MaxRequests == 2   \* requests the endpoint's clients post in ServerSpec

---------------------------------------------------------------------------
(* Strings *)

None == "<None>"

\* str.strip()
Strip(s) ==
    CASE s = " Movie " -> "Movie"
      [] s = " movie"  -> "movie"
      [] s = " X "     -> "X"
      [] s = " archive " -> "archive"
      [] s = " 13+ "   -> "13+"
      [] s = " "       -> ""
      [] OTHER         -> s

\* str.lower()
Lower(s) ==
    CASE s = "Movie" -> "movie"
      [] s = "EP"    -> "ep"
      [] s = "Show"  -> "show"
      [] s = "None"  -> "none"
      [] s = "NaN"   -> "nan"
      [] s = "BOGUS" -> "bogus"
      [] OTHER       -> s

\* _is_missing_str
is_missing_str(s) == Lower(Strip(s)) \in {"", "none", "nan", "null"}

\* to_str: None for a missing cell or a sentinel, else the stripped text
to_str(value) ==
    IF value = None THEN None
    ELSE IF is_missing_str(Strip(value)) THEN None ELSE Strip(value)

\* to_clean_str
to_clean_str(value) == IF to_str(value) # None THEN to_str(value) ELSE ""

\* Python's `a or b` on strings
OrElse(a, b) == IF a # "" THEN a ELSE b

---------------------------------------------------------------------------
(* The index classifier *)

ALLOWED_INDEXES ==
    {"cuepisode", "cumovie", "cuseason", "cuserie",
     "episode", "livetv", "movie", "program", "season", "serie"}

\* [p.strip().lower() for p in str(indexes_cell).split(",") if p.strip()]
RECURSIVE ExplicitParts(_)
ExplicitParts(cell) ==
    IF cell = <<>> THEN <<>>
    ELSE IF Strip(Head(cell)) # ""
         THEN <<Lower(Strip(Head(cell)))>> \o ExplicitParts(Tail(cell))
         ELSE ExplicitParts(Tail(cell))

\* the if/elif chain on t.lower()
TypeDerived(type) ==
    LET t == to_str(type) IN
    IF t = None \/ t = "" THEN <<>>
    ELSE LET tl == Lower(t) IN
         CASE tl = "movie" -> <<"cumovie", "movie">>
           [] tl \in {"episode", "ep", "part"} -> <<"cuepisode", "episode">>
           [] tl \in {"season"} -> <<"cuseason", "season">>
           [] tl \in {"series", "serie", "show"} -> <<"cuserie", "serie">>
           [] tl \in {"livetv", "live", "tv"} -> <<"livetv">>
           [] tl \in {"program"} -> <<"program">>
           [] OTHER -> <<>>

\* indexes before the fallback and the filter
WorkingList(row) == ExplicitParts(row.indexes) \o TypeDerived(row.type)

\* if ix and ix in ALLOWED_INDEXES and ix not in seen
DedupKeep(ix, uniq) ==
    ix # "" /\ ix \in ALLOWED_INDEXES /\ \A i \in 1..Len(uniq) : uniq[i] # ix

\* the loop `for ix in indexes` building uniq
RECURSIVE DedupFilter(_, _)
DedupFilter(indexes, uniq) ==
    IF indexes = <<>> THEN uniq
    ELSE DedupFilter(Tail(indexes),
                     IF DedupKeep(Head(indexes), uniq)
                     THEN Append(uniq, Head(indexes)) ELSE uniq)

\* variant: the fallback applied after the filter instead of before it
FallbackAfterFilter(row) ==
    IF DedupFilter(WorkingList(row), <<>>) = <<>>
    THEN <<"cuepisode">>
    ELSE DedupFilter(WorkingList(row), <<>>)

map_indexes_from_row(row) ==
    DedupFilter(IF WorkingList(row) = <<>> THEN <<"cuepisode">>
                ELSE WorkingList(row), <<>>)

---------------------------------------------------------------------------
(* The classifier on its own: one row in, one tag sequence out *)

\* text of one comma-separated part of an explicit indexes cell
CellParts == {"movie", " Movie ", "BOGUS", "", " ", "cuepisode", "serie"}

\* an indexes cell: missing (<<>>) or 1..MaxParts parts
IndexCells ==
    {<<>>} \cup UNION {[1..n -> CellParts] : n \in 1..MaxParts}

\* a type cell
TypeCells == {None, "Movie", " movie", "EP", "Show", "tv", "program",
              "season", "other", "None", ""}

ClassifierRows == [indexes : IndexCells, type : TypeCells]

IdleClassifier == crow = [indexes |-> <<>>, type |-> None]
                  /\ cresult = <<>> /\ cpc = "off"

Classify ==
    /\ cpc = "ready"
    /\ cresult' = map_indexes_from_row(crow)
    /\ cpc' = "returned"
    /\ UNCHANGED <<crow, importerVars, serverVars>>

---------------------------------------------------------------------------
(* The item builder.  The sheets of the model have the columns name, type  *)
(* and indexes; every other column is missing, so row.get of it is None.   *)
(* semantic_text is kept as the sequence of the parts " | ".join joins:    *)
(* the empty sequence is the empty string.                                 *)

\* [p for p in [name, description, content_type, channel_genre] if p]
RECURSIVE NonEmptyParts(_)
NonEmptyParts(parts) ==
    IF parts = <<>> THEN <<>>
    ELSE IF Head(parts) # "" THEN <<Head(parts)>> \o NonEmptyParts(Tail(parts))
         ELSE NonEmptyParts(Tail(parts))

build_item_from_row(row) ==
    LET name == OrElse(to_clean_str(row.name), to_clean_str(None))
        description == OrElse(to_clean_str(None), to_clean_str(None))
        content_type == to_clean_str(row.type)
        channel_genre == to_clean_str(None)
        indexes == map_indexes_from_row(row)
        base == [name |-> name,
                 description |-> description,
                 poster |-> to_clean_str(None),
                 ageLimit |-> to_clean_str(None),
                 type |-> content_type,
                 channelGenre |-> channel_genre,
                 platform_name |-> to_clean_str(None),
                 semantic_text |->
                     NonEmptyParts(<<name, description, content_type,
                                     channel_genre>>)]
    IN IF indexes # <<>> THEN base @@ ("indexes" :> indexes) ELSE base

\* item.get("indexes", [])
ItemIndexes(it) == IF "indexes" \in DOMAIN it THEN it["indexes"] ELSE <<>>

---------------------------------------------------------------------------
(* The store and the import endpoint *)

Names == ALLOWED_INDEXES \cup {"archive"}

\* the requests the endpoint can be handling at once
Slots == {"a", "b"}

\* the slot of main's requests: main has one request in flight at a time
ImporterSlot == "a"

\* payload.get("items"): kind says what it is (missing: the key is absent,
\* notlist: some other JSON value, list: a list, whose elements are in list)
Payload(kind, list) == [kind |-> kind, list |-> list]

IdleReq == [state |-> "idle", coll |-> "", items |-> Payload("missing", <<>>),
            status |-> 0, inserted |-> 0, errors |-> <<>>, error |-> ""]

\* isinstance(items, list)
IsList(items) == items.kind = "list"

\* int(x["date"][0:4]); 0 stands for the ValueError
YearOf(date) ==
    CASE date = "2019-07-01" -> 2019
      [] OTHER -> 0

\* norm_item on items whose genres/casts/indexes are lists already and whose
\* platform is no dict: the year and the ageLimit rules
norm_item(x) ==
    LET y == IF "date" \in DOMAIN x /\ "year" \notin DOMAIN x
                /\ YearOf(x["date"]) # 0
             THEN x @@ ("year" :> YearOf(x["date"])) ELSE x
    IN IF "rtukRatingShort" \in DOMAIN y /\ "ageLimit" \notin DOMAIN y
       THEN y @@ ("ageLimit" :> Strip(y["rtukRatingShort"])) ELSE y

norm_items(items) ==
    Payload("list", [i \in 1..Len(items.list) |-> norm_item(items.list[i])])

\* the items of a batch the store accepted, in order
RECURSIVE Accepted(_, _, _)
Accepted(items, rejected, i) ==
    IF i > Len(items) THEN <<>>
    ELSE IF i \in rejected THEN Accepted(items, rejected, i + 1)
         ELSE <<items[i]>> \o Accepted(items, rejected, i + 1)

\* [str(e) for e in result.errors]: one message per rejected item
RECURSIVE ErrorList(_, _, _)
ErrorList(items, rejected, i) ==
    IF i > Len(items) THEN <<>>
    ELSE IF i \in rejected
         THEN <<"rejected">> \o ErrorList(items, rejected, i + 1)
         ELSE ErrorList(items, rejected, i + 1)

Respond(r, status, inserted, errors, error) ==
    [req EXCEPT ![r].state = "responded", ![r].status = status,
                ![r].inserted = inserted, ![r].errors = errors,
                ![r].error = error]

\* variant: the length check left out
ValidateAcceptsEmpty(items) == ~IsList(items)

\* not isinstance(items, list) or len(items) == 0
InvalidItems(items) == ~IsList(items) \/ Len(items.list) = 0

\* lines 122-132: the payload check and its 400 response
Validate(r) ==
    /\ req[r].state = "recv"
    /\ IF InvalidItems(req[r].items)
       THEN req' = Respond(r, 400, 0, <<"items must be a non-empty list">>, "")
       ELSE req' = [req EXCEPT ![r].state = "exists",
                               ![r].items = norm_items(req[r].items)]
    /\ UNCHANGED <<collections, objects, createCalls, storeCalls, stored,
                   posted>>
    /\ UNCHANGED <<importerVars, classifierVars>>

\* line 165: await client.collections.exists(collection_name)
Exists(r) ==
    /\ req[r].state = "exists"
    /\ storeCalls' = [storeCalls EXCEPT ![r] = @ + 1]
    /\ req' = [req EXCEPT ![r].state =
                   IF req[r].coll \in collections THEN "insert" ELSE "create"]
    /\ UNCHANGED <<collections, objects, createCalls, stored, posted>>
    /\ UNCHANGED <<importerVars, classifierVars>>

\* lines 166-193: await client.collections.create(...); the store refuses to
\* create a collection that exists, and the handler's except answers 500
Create(r) ==
    /\ req[r].state = "create"
    /\ storeCalls' = [storeCalls EXCEPT ![r] = @ + 1]
    /\ createCalls' = [createCalls EXCEPT ![req[r].coll] = @ + 1]
    /\ IF req[r].coll \in collections
       THEN /\ req' = Respond(r, 500, 0, <<"exists">>, "exists")
            /\ UNCHANGED collections
       ELSE /\ req' = [req EXCEPT ![r].state = "insert"]
            /\ collections' = collections \cup {req[r].coll}
    /\ UNCHANGED <<objects, stored, posted>>
    /\ UNCHANGED <<importerVars, classifierVars>>

\* lines 198-203: inserted stays 0 when the result has errors
InsertedCount(n, rejected) == IF rejected # {} THEN 0 ELSE n

\* lines 195-209: insert_many and the 200 response; the store rejects any
\* subset of the batch item by item and inserts the rest, or the call raises
\* with nothing inserted and the handler's except answers 500
Insert(r) ==
    /\ req[r].state = "insert"
    /\ storeCalls' = [storeCalls EXCEPT ![r] = @ + 1]
    /\ \/ /\ req' = Respond(r, 500, 0, <<"store">>, "store")
          /\ UNCHANGED <<objects, stored>>
       \/ \E rejected \in SUBSET (1..Len(req[r].items.list)) :
            LET kept == Accepted(req[r].items.list, rejected, 1) IN
            /\ objects' = [objects EXCEPT ![req[r].coll] = @ \o kept]
            /\ stored' = [stored EXCEPT ![r] = @ + Len(kept)]
            /\ req' = Respond(r, 200,
                              InsertedCount(Len(req[r].items.list), rejected),
                              ErrorList(req[r].items.list, rejected, 1), "")
    /\ UNCHANGED <<collections, createCalls, posted>>
    /\ UNCHANGED <<importerVars, classifierVars>>

InitialCollections == SUBSET {"movie", "cuepisode"}

InitStore ==
    /\ collections \in InitialCollections
    /\ objects = [c \in Names |-> <<>>]
    /\ createCalls = [c \in Names |-> 0]
    /\ req = [r \in Slots |-> IdleReq]
    /\ storeCalls = [r \in Slots |-> 0]
    /\ stored = [r \in Slots |-> 0]
    /\ posted = 0

---------------------------------------------------------------------------
(* The importer: main *)

\* a non-dict entry of the listing: c.get("name") raises on it
BadEntry == "<bad>"

\* the names read by the loop of lines 205-208 until an entry raises; an
\* entry without a name ("") is passed over
RECURSIVE NamesReadBeforeRaise(_)
NamesReadBeforeRaise(entries) ==
    IF entries = <<>> \/ Head(entries) = BadEntry THEN {}
    ELSE (IF Head(entries) # "" THEN {Head(entries)} ELSE {})
         \cup NamesReadBeforeRaise(Tail(entries))

Raises(entries) == \E i \in 1..Len(entries) : entries[i] = BadEntry

\* lines 199-210: existing after the discovery.  kind is "error" (the request
\* or r.json() raised), "nonjson" (another content type: data = {}) or "json"
DiscoveredSet(kind, entries) ==
    IF kind = "json" THEN NamesReadBeforeRaise(entries) ELSE {}

\* variant: the discovered set is not consulted
FilterIgnoresExisting(idxs, known) == idxs

\* targets = [ix for ix in idxs if not existing or ix in existing]
RECURSIVE FilterExisting(_, _)
FilterExisting(idxs, known) ==
    IF idxs = <<>> THEN <<>>
    ELSE IF known = {} \/ Head(idxs) \in known
         THEN <<Head(idxs)>> \o FilterExisting(Tail(idxs), known)
         ELSE FilterExisting(Tail(idxs), known)

\* lines 222-226
Targets(it, force, known) ==
    IF force # None /\ force # "" THEN <<force>>
    ELSE FilterExisting(ItemIndexes(it), known)

\* the rows of the sheet
RowKinds == {[type |-> None, indexes |-> <<>>],
             [type |-> None, indexes |-> <<"BOGUS">>],
             [type |-> "Movie", indexes |-> <<" Movie ", "BOGUS">>]}

Rows == {[name |-> n, type |-> k.type, indexes |-> k.indexes] :
           n \in {None, " X "}, k \in RowKinds}

\* --collection as given on the command line
CollectionArgs == {None, " archive ", " "}

ListingEntries == {"movie", "cumovie", "", BadEntry}

Listings == UNION {[1..n -> ListingEntries] : n \in 0..MaxListing}

NoItem == [name |-> ""]

InitImporter ==
    /\ pc = "discover"
    /\ total \in 0..MaxRows
    /\ idx = 0
    /\ existing = {}
    /\ \E arg \in CollectionArgs :
         force_collection = IF arg # None /\ arg # "" THEN Strip(arg) ELSE None
    /\ item = NoItem
    /\ targets = <<>>
    /\ tpos = 0
    /\ row_ok = TRUE
    /\ success = 0
    /\ failed = 0
    /\ report = [Success |-> 0, Failed |-> 0, Total |-> 0]
    /\ exit_code = -1
    /\ attempts = <<>>
    /\ skipped = 0
    /\ last = "none"
    /\ discovery_failed = FALSE

IdleImporter ==
    /\ pc = "off" /\ total = 0 /\ idx = 0 /\ existing = {}
    /\ force_collection = None /\ item = NoItem /\ targets = <<>>
    /\ tpos = 0 /\ row_ok = TRUE /\ success = 0 /\ failed = 0
    /\ report = [Success |-> 0, Failed |-> 0, Total |-> 0]
    /\ exit_code = -1 /\ attempts = <<>> /\ skipped = 0 /\ last = "none"
    /\ discovery_failed = FALSE

\* lines 198-210
Discover ==
    /\ pc = "discover"
    /\ \E kind \in {"error", "nonjson", "json"} :
       \E entries \in Listings :
         /\ kind # "json" => entries = <<>>
         /\ existing' = DiscoveredSet(kind, entries)
         /\ discovery_failed' = (kind = "error" \/ Raises(entries))
    /\ pc' = "rows"
    /\ UNCHANGED <<total, idx, force_collection, item, targets, tpos, row_ok,
                   success, failed, report, exit_code, attempts, skipped,
                   last>>
    /\ UNCHANGED <<serverVars, classifierVars>>

\* lines 214-232: the head of the row's iteration, to the first delivery
NextRow ==
    /\ pc = "rows"
    /\ idx < total
    /\ \E row \in Rows :
         LET it == build_item_from_row(row)
             tg == Targets(it, force_collection, existing)
         IN /\ item' = it
            /\ attempts' = <<>>
            /\ IF DOMAIN it = {}
               THEN /\ skipped' = skipped + 1
                    /\ idx' = idx + 1
                    /\ last' = "skipped"
                    /\ UNCHANGED <<targets, tpos, row_ok, pc>>
               ELSE /\ targets' = tg
                    /\ IF tg = <<>>
                       THEN /\ skipped' = skipped + 1
                            /\ idx' = idx + 1
                            /\ last' = "skipped"
                            /\ UNCHANGED <<tpos, row_ok, pc>>
                       ELSE /\ row_ok' = TRUE
                            /\ tpos' = 1
                            /\ pc' = "send"
                            /\ UNCHANGED <<skipped, idx, last>>
    /\ UNCHANGED <<total, existing, force_collection, success, failed, report,
                   exit_code, discovery_failed>>
    /\ UNCHANGED <<serverVars, classifierVars>>

\* variant: row_ok follows the last delivery only
RowOkLastWins(ok) == ok

\* lines 234-237: row_ok after a delivery that ended ok or raised
RowOkAfter(ok) == row_ok /\ ok

\* variant: a failed delivery ends the row's loop
NextAfterFailureStops(ok) == IF ok THEN tpos + 1 ELSE Len(targets) + 1

\* the for loop over targets: the position after a delivery
NextTarget(ok) == tpos + 1

\* lines 233-243: a delivery to targets[tpos] has ended; the loop goes on to
\* the next target, or the row is counted
AfterDelivery(ok) ==
    /\ attempts' = Append(attempts, [coll |-> targets[tpos], ok |-> ok])
    /\ row_ok' = RowOkAfter(ok)
    /\ IF NextTarget(ok) <= Len(targets)
       THEN /\ tpos' = NextTarget(ok)
            /\ pc' = "send"
            /\ UNCHANGED <<success, failed, idx, last>>
       ELSE /\ tpos' = NextTarget(ok)
            /\ pc' = "rows"
            /\ idx' = idx + 1
            /\ IF RowOkAfter(ok)
               THEN /\ success' = success + 1
                    /\ last' = "succeeded"
                    /\ UNCHANGED failed
               ELSE /\ failed' = failed + 1
                    /\ last' = "failed"
                    /\ UNCHANGED success
    /\ UNCHANGED <<total, existing, force_collection, item, targets, report,
                   exit_code, skipped, discovery_failed>>

\* lines 165-166: session.post reaches the endpoint
SendRow ==
    /\ pc = "send"
    /\ req[ImporterSlot].state = "idle"
    /\ req' = [req EXCEPT ![ImporterSlot] =
                 [IdleReq EXCEPT !.state = "recv", !.coll = targets[tpos],
                                 !.items = Payload("list", <<item>>)]]
    /\ storeCalls' = [storeCalls EXCEPT ![ImporterSlot] = 0]
    /\ stored' = [stored EXCEPT ![ImporterSlot] = 0]
    /\ pc' = "wait"
    /\ UNCHANGED <<total, idx, existing, force_collection, item, targets,
                   tpos, row_ok, success, failed, report, exit_code, attempts,
                   skipped, last, discovery_failed>>
    /\ UNCHANGED <<collections, objects, createCalls, posted, classifierVars>>

\* line 166: session.post raises before the endpoint got the request
SendRowUnreachable ==
    /\ pc = "send"
    /\ AfterDelivery(FALSE)
    /\ UNCHANGED <<serverVars, classifierVars>>

\* line 171: status 200, no error, no errors
ResponseOk(r) == r.status = 200 /\ r.error = "" /\ r.errors = <<>>

\* lines 166-173: the response is there; it is read, or the read times out or
\* finds no JSON and a 200 (lost)
SendRowReturns ==
    /\ pc = "wait"
    /\ req[ImporterSlot].state = "responded"
    /\ \E lost \in BOOLEAN :
         AfterDelivery(~lost /\ ResponseOk(req[ImporterSlot]))
    /\ req' = [req EXCEPT ![ImporterSlot].state = "idle"]
    /\ UNCHANGED <<collections, objects, createCalls, storeCalls, stored,
                   posted>>
    /\ UNCHANGED classifierVars

\* variant: any succeeded row makes the run a success
ExitCodeAnySuccess == IF failed = 0 \/ success > 0 THEN 0 ELSE 2

\* line 249
ExitCode == IF failed = 0 THEN 0 ELSE 2

\* lines 248-249
Finish ==
    /\ pc = "rows"
    /\ idx = total
    /\ report' = [Success |-> success, Failed |-> failed, Total |-> total]
    /\ exit_code' = ExitCode
    /\ pc' = "done"
    /\ UNCHANGED <<total, idx, existing, force_collection, item, targets,
                   tpos, row_ok, success, failed, attempts, skipped, last,
                   discovery_failed>>
    /\ UNCHANGED <<serverVars, classifierVars>>

Init == InitImporter /\ InitStore /\ IdleClassifier

Next ==
    \/ Discover
    \/ NextRow
    \/ SendRow
    \/ SendRowUnreachable
    \/ SendRowReturns
    \/ Finish
    \/ Validate(ImporterSlot)
    \/ Exists(ImporterSlot)
    \/ Create(ImporterSlot)
    \/ Insert(ImporterSlot)

Spec == Init /\ [][Next]_vars

---------------------------------------------------------------------------
(* The endpoint under several clients *)

\* items the clients of the endpoint send
ServerItems == {[name |-> "X"],
                [name |-> "Y", rtukRatingShort |-> " 13+ ",
                 date |-> "2019-07-01"]}

Payloads ==
    {Payload("missing", <<>>), Payload("notlist", <<>>)}
    \cup {Payload("list", l) :
            l \in UNION {[1..n -> ServerItems] : n \in 0..MaxBatch}}

ServerCollections == {"movie"}

\* a client posts /db/{user_id}/import/{collection_name}
Post(r) ==
    /\ req[r].state = "idle"
    /\ posted < MaxRequests
    /\ posted' = posted + 1
    /\ \E coll \in ServerCollections, items \in Payloads :
         req' = [req EXCEPT ![r] = [IdleReq EXCEPT !.state = "recv",
                                                   !.coll = coll,
                                                   !.items = items]]
    /\ storeCalls' = [storeCalls EXCEPT ![r] = 0]
    /\ stored' = [stored EXCEPT ![r] = 0]
    /\ UNCHANGED <<collections, objects, createCalls>>
    /\ UNCHANGED <<importerVars, classifierVars>>

\* the client has the response; the slot is free for the next request
Collect(r) ==
    /\ req[r].state = "responded"
    /\ req' = [req EXCEPT ![r] = IdleReq]
    /\ storeCalls' = [storeCalls EXCEPT ![r] = 0]
    /\ stored' = [stored EXCEPT ![r] = 0]
    /\ UNCHANGED <<collections, objects, createCalls, posted>>
    /\ UNCHANGED <<importerVars, classifierVars>>

ServerInit ==
    /\ IdleImporter
    /\ InitStore
    /\ collections \subseteq ServerCollections
    /\ IdleClassifier

ServerNext ==
    \E r \in Slots :
        \/ Post(r)
        \/ Validate(r)
        \/ Exists(r)
        \/ Create(r)
        \/ Insert(r)
        \/ Collect(r)

ServerSpec == ServerInit /\ [][ServerNext]_vars

---------------------------------------------------------------------------
(* The classifier on its own *)

ClassifierInit ==
    /\ IdleImporter
    /\ InitStore
    /\ collections = {}
    /\ crow \in ClassifierRows
    /\ cresult = <<>>
    /\ cpc = "ready"

ClassifierNext == Classify

ClassifierSpec == ClassifierInit /\ [][ClassifierNext]_vars

---------------------------------------------------------------------------
(* Properties *)

Colls(att) == [i \in 1..Len(att) |-> att[i].coll]

AllOk(att) == \A i \in 1..Len(att) : att[i].ok

NoDuplicates(seq) ==
    \A i, j \in 1..Len(seq) : seq[i] = seq[j] => i = j

IsPrefix(a, b) ==
    Len(a) <= Len(b) /\ \A i \in 1..Len(a) : a[i] = b[i]

Occurs(x, seq) == \E i \in 1..Len(seq) : seq[i] = x

\* the place x is first seen at in seq
FirstPos(x, seq) ==
    CHOOSE i \in 1..Len(seq) : seq[i] = x /\ \A j \in 1..(i - 1) : seq[j] # x

\* no override: --collection absent, or blank after strip
NoOverride == force_collection = None \/ force_collection = ""

\* a row has been taken from the sheet
RowTaken == last # "none" \/ pc \in {"send", "wait"}

\* the last row taken has been counted
RowCounted == pc \in {"rows", "done"} /\ last # "none"

\* every field absent or the empty string, and no tags
IsEmptyItem(it) ==
    /\ "indexes" \notin DOMAIN it
    /\ \A k \in DOMAIN it \ {"semantic_text"} : it[k] = ""
    /\ "semantic_text" \in DOMAIN it => it["semantic_text"] = <<>>

\* C1, the count: the step that counts a row with destinations adds it to
\* success when every delivery of the row ended ok, and to failed otherwise
C1_Counted ==
    (idx' = idx + 1 /\ targets' # <<>>) =>
        IF AllOk(attempts')
        THEN success' = success + 1 /\ failed' = failed
        ELSE failed' = failed + 1 /\ success' = success

\* C1, no rollback: no step takes an object out of a collection or a
\* collection out of the store
C1_NoRollback ==
    /\ collections \subseteq collections'
    /\ \A c \in Names : IsPrefix(objects[c], objects'[c])

\* C1: a row with destinations is counted as succeeded iff every delivery
\* attempted for it succeeded, as failed otherwise, and what a sibling
\* destination received stays in the store
C1_RowCountedByDeliveries == [][C1_Counted /\ C1_NoRollback]_vars

\* C1 witness: a two-destination row counted failed whose first delivery
\* succeeded and left the item in the first destination
C1_Witness ==
    /\ RowCounted /\ last = "failed" /\ failed = 1 /\ success = 0
    /\ Len(attempts) = 2 /\ attempts[1].ok /\ ~attempts[2].ok
    /\ Occurs(item, objects[attempts[1].coll])

\* C2: main makes exactly one delivery per destination of the row, in list
\* order, whatever the earlier deliveries' outcomes: while a row is being
\* delivered the deliveries made are the destinations before the current
\* one, the request in flight is the item alone, as a one-element batch,
\* for the current destination, and once the row is counted the deliveries
\* are the whole list, none twice
C2_OneDeliveryPerDestination ==
    /\ pc \in {"send", "wait"} =>
         /\ tpos \in 1..Len(targets)
         /\ Colls(attempts) = SubSeq(targets, 1, tpos - 1)
    /\ IF pc = "wait"
       THEN /\ req[ImporterSlot].state # "idle"
            /\ req[ImporterSlot].coll = targets[tpos]
            /\ req[ImporterSlot].items = Payload("list", <<item>>)
       ELSE req[ImporterSlot].state = "idle"
    /\ (RowCounted /\ last \in {"succeeded", "failed"}) =>
         /\ Colls(attempts) = targets
         /\ NoDuplicates(Colls(attempts))
    /\ pc = "done" => idx = total

\* C2 witness: the second row of the sheet, counted failed like the first,
\* got its second delivery, which succeeded, after its first one failed
C2_Witness ==
    /\ RowCounted /\ idx = 2 /\ failed = 2
    /\ Len(targets) = 2 /\ ~attempts[1].ok /\ attempts[2].ok

\* C3 as stated: the summary has a skipped count beside the three others
C3_ReportsSkipped ==
    pc = "done" =>
        /\ "Skipped" \in DOMAIN report
        /\ report["Skipped"] = skipped
        /\ report.Success + report.Failed + report["Skipped"] = report.Total
        /\ (exit_code # 0) <=> (failed > 0)

\* C3 amended: the summary has the total, succeeded and failed counts and
\* no other; every row is in exactly one of succeeded, failed and skipped,
\* so the skipped rows are total - succeeded - failed; the exit code is
\* non-zero exactly when failed > 0
C3_ReportAndExit ==
    /\ success + failed + skipped = idx
    /\ pc = "done" =>
        /\ DOMAIN report = {"Success", "Failed", "Total"}
        /\ report.Success = success /\ report.Failed = failed
        /\ report.Total = total
        /\ skipped = report.Total - report.Success - report.Failed
        /\ (exit_code # 0) <=> (failed > 0)

\* C3 witness: a finished run with a skipped and a failed row
C3_Witness ==
    pc = "done" /\ skipped = 1 /\ failed = 1 /\ total = 2 /\ exit_code = 2

\* C4: a collection is created by at most one call, however the requests
\* that name it overlap
C4_OneCreatePerCollection == \A c \in Names : createCalls[c] <= 1

\* C5: the inserted count of a response is the number of items of the
\* batch that went into the collection
C5_InsertedIsStored ==
    \A r \in Slots :
        (req[r].state = "responded" /\ req[r].status = 200) =>
            req[r].inserted = stored[r]

\* C6: after a discovery that failed, the discovered set is empty, so
\* that without an override every tag of an item is a destination
C6_FailedDiscoveryIsEmpty ==
    discovery_failed =>
        /\ existing = {}
        /\ (NoOverride /\ RowTaken) => targets = ItemIndexes(item)

\* C7: without an override the destination list is the item's tags in tag
\* order, restricted to the discovered set when it is non-empty; no
\* delivery then targets a name outside the set; a row left without
\* destinations is skipped with no delivery
C7_RoutedWithinDiscovered ==
    (NoOverride /\ RowTaken) =>
        /\ targets = SelectSeq(ItemIndexes(item),
                               LAMBDA ix : existing = {} \/ ix \in existing)
        /\ existing # {} =>
             /\ \A i \in 1..Len(attempts) : attempts[i].coll \in existing
             /\ req[ImporterSlot].state # "idle" =>
                  req[ImporterSlot].coll \in existing
        /\ targets = <<>> =>
             /\ last = "skipped" /\ attempts = <<>>
             /\ pc \notin {"send", "wait"}

\* C7 witness: tags movie, cumovie routed to movie alone, the one
\* discovered, and delivered
C7_Witness ==
    /\ NoOverride /\ existing = {"movie"} /\ RowCounted
    /\ ItemIndexes(item) = <<"movie", "cumovie">>
    /\ targets = <<"movie">> /\ last = "succeeded"

\* the items of a request are missing, no list, or an empty list
BadPayload(r) ==
    \/ req[r].items.kind \in {"missing", "notlist"}
    \/ req[r].items.kind = "list" /\ req[r].items.list = <<>>

\* C8: a request with missing, non-list or empty items gets status 400 and
\* makes no store call: no existence check, no create, no insert
C8_BadPayloadRejected ==
    \A r \in Slots :
        (req[r].state # "idle" /\ BadPayload(r)) =>
            /\ req[r].state \in {"recv", "responded"}
            /\ storeCalls[r] = 0
            /\ stored[r] = 0
            /\ req[r].state = "responded" =>
                 (req[r].status = 400 /\ req[r].inserted = 0)

\* C8 witness: an empty list answered 400 while the other request is
\* being served
C8_Witness ==
    \E r \in Slots :
        /\ req[r].state = "responded" /\ req[r].status = 400
        /\ req[r].items.kind = "list" /\ req[r].items.list = <<>>
        /\ \E q \in Slots : req[q].state = "insert"

\* C9: the classifier's result has only tags of the vocabulary, none
\* twice, in the first-seen order of the explicit then the type-derived
\* tokens, with each of their vocabulary tokens in it; it is the default
\* cuepisode alone when there is no token at all, and takes nothing from
\* the default otherwise
C9_ClassifierResult ==
    cpc = "returned" =>
        LET w == WorkingList(crow) IN
        /\ \A i \in 1..Len(cresult) : cresult[i] \in ALLOWED_INDEXES
        /\ NoDuplicates(cresult)
        /\ w = <<>> => cresult = <<"cuepisode">>
        /\ w # <<>> =>
             /\ \A i \in 1..Len(cresult) : Occurs(cresult[i], w)
             /\ \A i \in 1..Len(w) :
                  w[i] \in ALLOWED_INDEXES => Occurs(w[i], cresult)
             /\ \A i, j \in 1..Len(cresult) :
                  i < j => FirstPos(cresult[i], w) < FirstPos(cresult[j], w)

\* C9 witness: an explicit cell with a cased, padded tag and an unknown
\* one, and a type whose tags repeat the explicit one
C9_Witness ==
    /\ cpc = "returned"
    /\ crow.indexes = <<" Movie ", "BOGUS">> /\ crow.type = "Movie"
    /\ cresult = <<"movie", "cumovie">>

\* C10: a row whose item is empty is skipped, override or not: it gets no
\* delivery and is counted neither succeeded nor failed
C10_EmptyItemSkipped ==
    IsEmptyItem(item) =>
        /\ pc \notin {"send", "wait"}
        /\ attempts = <<>>
        /\ last \in {"none", "skipped"}

===========================================================================
